---------------------------- MODULE Spec2Model ----------------------------
(***************************************************************************)
(* L+D Turkey Labeler (src/app.py, src/l_d_turkey_labeler_app.py).         *)
(*                                                                         *)
(* Text is modelled as a sequence of symbols.  A symbol is one character,  *)
(* or an atom standing for a run of characters that no operation of the    *)
(* program splits (a token name such as "PRICE", a formatted number such   *)
(* as "3.250").  Weights read from the scale and tares are exact decimals  *)
(* in units of 0.0001 lb, the weight field holds thousandths of a pound    *)
(* (the "%.3f" text), prices per pound and totals are in cents.            *)
(***************************************************************************)
EXTENDS Integers, Sequences, FiniteSets, TLC

VARIABLES
    \* ---- generate_upc_barcode, applied to one input
    upc_in,            \* the upc argument
    upc_out,           \* what generate_upc_barcode did with it
    \* ---- render_label_as_image, applied to one template and token map
    r_template,        \* template_text
    r_values,          \* values: the token map, in insertion order
    r_env,             \* the file system the call runs against
    r_out,             \* the outcome of the call
    \* ---- GaincoScale.read_weight, applied to one answer of the scale
    sc_in,             \* what the scale does during the call
    sc_out,            \* what read_weight returned
    \* ---- the application (class App) and what it talks to
    store,             \* products table: product_code -> row or NoRow
    selected_product,  \* text of the product combobox
    weight_var,        \* text of the weight entry
    price_var,         \* text of the price entry
    printer_mode,      \* "serial" or "ip"
    printer_ip,        \* text of the printer IP option
    printer_port,      \* text of the printer COM port option
    last,              \* what the handler that ran last did
    \* ---- what is on disk next to the application
    label_file,        \* how the label_format file of a product is found
    settings           \* settings table: NoTable, or key -> value

upcVars == <<upc_in, upc_out>>
renderVars == <<r_template, r_values, r_env, r_out>>
scaleVars == <<sc_in, sc_out>>
diskVars == <<label_file, settings>>
appVars == <<store, selected_product, weight_var, price_var, printer_mode,
             printer_ip, printer_port, last, label_file, settings>>
vars == <<upc_in, upc_out, r_template, r_values, r_env, r_out, sc_in, sc_out, store,
          selected_product, weight_var, price_var, printer_mode, printer_ip,
          printer_port, last, label_file, settings>>

-----------------------------------------------------------------------------
(* Text helpers: the Python str methods the program uses.                  *)

\* Python None, as a value of a token map or a database column.
None == <<"<None>">>

\* str(v)
Str(v) == IF v = None THEN <<"N", "o", "n", "e">> ELSE v

\* bool(v) for a text or None
Truthy(v) == v # None /\ v # <<>>

IsSpace(c) == c \in {" ", "\t", "\r", "\n"}

IsDigit(c) == c \in {"0", "1", "2", "3", "4", "5", "6", "7", "8", "9"}

RECURSIVE LStrip(_)
LStrip(s) == IF s # <<>> /\ IsSpace(Head(s)) THEN LStrip(Tail(s)) ELSE s

RECURSIVE RStrip(_)
RStrip(s) ==
    IF s # <<>> /\ IsSpace(s[Len(s)]) THEN RStrip(SubSeq(s, 1, Len(s) - 1))
    ELSE s

\* str.strip()
Strip(s) == RStrip(LStrip(s))

Zeros(n) == [i \in 1..n |-> "0"]

\* str.zfill(width): zeros go after a leading sign
Zfill(s, width) ==
    IF Len(s) >= width THEN s
    ELSE IF s # <<>> /\ Head(s) \in {"+", "-"}
         THEN <<Head(s)>> \o Zeros(width - Len(s)) \o Tail(s)
         ELSE Zeros(width - Len(s)) \o s

\* s[-n:]
LastN(s, n) == IF Len(s) <= n THEN s ELSE SubSeq(s, Len(s) - n + 1, Len(s))

\* tok in s
RECURSIVE Contains(_, _)
Contains(s, tok) ==
    IF Len(s) < Len(tok) THEN FALSE
    ELSE IF SubSeq(s, 1, Len(tok)) = tok THEN TRUE
    ELSE Contains(Tail(s), tok)

\* s.replace(tok, v): every non-overlapping occurrence, left to right
RECURSIVE Replace(_, _, _)
Replace(s, tok, v) ==
    IF Len(s) < Len(tok) THEN s
    ELSE IF SubSeq(s, 1, Len(tok)) = tok
         THEN v \o Replace(SubSeq(s, Len(tok) + 1, Len(s)), tok, v)
         ELSE <<Head(s)>> \o Replace(Tail(s), tok, v)

-----------------------------------------------------------------------------
(* generate_upc_barcode                                                    *)

UpcShort == 11
UpcLong == 12

\* UpcDigits with the fault of keeping the first 12 characters of an
\* over-long code
UpcTakeFirst(upc_digits) ==
    IF Len(upc_digits) = UpcShort THEN upc_digits
    ELSE IF Len(upc_digits) = UpcLong THEN upc_digits
    ELSE IF Len(upc_digits) < UpcShort THEN Zfill(upc_digits, UpcShort)
    ELSE SubSeq(upc_digits, 1, UpcLong)

\* UpcDigits with the fault of leaving a short code as it is
UpcDigitsNoPad(upc_digits) ==
    IF Len(upc_digits) <= UpcLong THEN upc_digits
    ELSE LastN(upc_digits, UpcLong)

\* the if/elif chain on the stripped text
UpcDigits(upc_digits) ==
    IF Len(upc_digits) = UpcShort THEN upc_digits
    ELSE IF Len(upc_digits) = UpcLong THEN upc_digits
    ELSE IF Len(upc_digits) < UpcShort THEN Zfill(upc_digits, UpcShort)
    ELSE LastN(upc_digits, UpcLong)

\* upc_digits as handed to barcode.get
NormalizeUpc(upc) == UpcDigits(Strip(upc))

\* barcode.get('upca', ...) takes a code of digits only
BarcodeAccepts(digits) ==
    /\ Len(digits) >= UpcShort
    /\ \A i \in 1..Len(digits) : IsDigit(digits[i])

\* the call: the digits encoded, or the exception raised
generate_upc_barcode(upc, tmpWritable) ==
    LET d == NormalizeUpc(upc) IN
    IF ~BarcodeAccepts(d) THEN [raised |-> TRUE, digits |-> d]
    ELSE IF ~tmpWritable THEN [raised |-> TRUE, digits |-> d]
    ELSE [raised |-> FALSE, digits |-> d]

-----------------------------------------------------------------------------
(* render_label_as_image                                                   *)

\* Token with the fault of single braces
TokenSingleBrace(k) == <<"{", k, "}">>

\* '{{' + k + '}}'
Token(k) == <<"{", "{", k, "}", "}">>

UPC_BARCODE == Token("UPC_BARCODE")

ERR_BARCODE == <<"ERR: barcode">>

\* template_text.split('\n')
RECURSIVE Split(_)
Split(s) ==
    IF \A i \in 1..Len(s) : s[i] # "\n" THEN <<s>>
    ELSE LET i == CHOOSE j \in 1..Len(s) :
                      s[j] = "\n" /\ \A h \in 1..(j - 1) : s[h] # "\n"
         IN <<SubSeq(s, 1, i - 1)>> \o Split(SubSeq(s, i + 1, Len(s)))

\* values.get(k): None when k is no key
Get(values, k) ==
    IF \E i \in 1..Len(values) : values[i][1] = k
    THEN values[CHOOSE i \in 1..Len(values) : values[i][1] = k][2]
    ELSE None

\* for k,v in values.items(): if token in line: line = line.replace(token, str(v))
RECURSIVE SubstituteFrom(_, _, _)
SubstituteFrom(line, values, i) ==
    IF i > Len(values) THEN line
    ELSE LET token == Token(values[i][1])
             next == IF Contains(line, token)
                     THEN Replace(line, token, Str(values[i][2]))
                     ELSE line
         IN SubstituteFrom(next, values, i + 1)

Substitute(line, values) == SubstituteFrom(line, values, 1)

TextX == 100
BarcodeX == 10
StartY == 10
LineHeight == 18
ErrHeight == 20
BarcodeGap == 5
\* bc.size[1] after bc.thumbnail((180,60)): the height of the shrunk barcode
BarcodeHeight == 60

\* DrawLine with the fault of letting a barcode failure leave the loop
DrawLineNoCatch(line, values, y, tmpWritable) ==
    LET text == Substitute(line, values) IN
    IF Contains(text, UPC_BARCODE)
    THEN LET upc == IF Truthy(Get(values, "UPC")) THEN Get(values, "UPC")
                    ELSE <<>>
             bc == generate_upc_barcode(upc, tmpWritable)
         IN IF bc.raised
            THEN [raised |-> TRUE, op |-> "none", x |-> BarcodeX, y |-> y,
                  arg |-> <<>>, next |-> y]
            ELSE [raised |-> FALSE, op |-> "barcode", x |-> BarcodeX, y |-> y,
                  arg |-> bc.digits, next |-> y + BarcodeHeight + BarcodeGap]
    ELSE [raised |-> FALSE, op |-> "text", x |-> TextX, y |-> y, arg |-> text,
          next |-> y + LineHeight]

\* one pass of the loop over the template's lines, with the cursor at y
DrawLine(line, values, y, tmpWritable) ==
    LET text == Substitute(line, values) IN
    IF Contains(text, UPC_BARCODE)
    THEN LET upc == IF Truthy(Get(values, "UPC")) THEN Get(values, "UPC")
                    ELSE <<>>
             bc == generate_upc_barcode(upc, tmpWritable)
         IN IF bc.raised
            THEN [raised |-> FALSE, op |-> "text", x |-> BarcodeX, y |-> y,
                  arg |-> ERR_BARCODE, next |-> y + ErrHeight]
            ELSE [raised |-> FALSE, op |-> "barcode", x |-> BarcodeX, y |-> y,
                  arg |-> bc.digits, next |-> y + BarcodeHeight + BarcodeGap]
    ELSE [raised |-> FALSE, op |-> "text", x |-> TextX, y |-> y, arg |-> text,
          next |-> y + LineHeight]

\* the loop: the operations drawn so far, the cursor, and whether it raised
RECURSIVE DrawLines(_, _, _, _, _)
DrawLines(lines, values, y, tmpWritable, ops) ==
    IF lines = <<>> THEN [raised |-> FALSE, ops |-> ops, y |-> y]
    ELSE LET d == DrawLine(Head(lines), values, y, tmpWritable) IN
         IF d.raised THEN [raised |-> TRUE, ops |-> ops, y |-> y]
         ELSE DrawLines(Tail(lines), values, d.next, tmpWritable,
                        Append(ops, [op |-> d.op, x |-> d.x, y |-> d.y,
                                     arg |-> d.arg]))

\* the environment of one call: the files that exist, those among them
\* that load as images, whether the barcode's temporary file and the
\* output file can be written
RenderEnv(files, images, tmpWritable, outWritable) ==
    [files |-> files, images |-> images, tmpWritable |-> tmpWritable,
     outWritable |-> outWritable]

\* the call: what was drawn, and whether an exception left the function
render_label_as_image(template_text, values, env) ==
    LET logo_path == Get(values, "LOGO_PATH")
        logo == /\ Truthy(logo_path)
                /\ logo_path \in env.files
                /\ logo_path \in env.images
        body == DrawLines(Split(template_text), values, StartY,
                          env.tmpWritable, <<>>)
    IN [raised |-> body.raised \/ ~env.outWritable,
        saved |-> ~body.raised /\ env.outWritable,
        logo |-> logo,
        ops |-> body.ops,
        y |-> body.y]

-----------------------------------------------------------------------------
(* Numbers and their texts                                                 *)

\* n / d to the nearest integer, a tie to the even one (n >= 0): what "%.Nf"
\* does with an exact decimal
RoundDiv(n, d) ==
    LET q == n \div d
        r == n % d
    IN IF 2 * r > d \/ (2 * r = d /\ q % 2 = 1) THEN q + 1 ELSE q

\* a database REAL column: <<>> is NULL, <<n>> is the number n
Or0(col) == IF col = <<>> \/ col = <<0>> THEN 0 ELSE col[1]

\* the text of an entry field: a number (thousandths for the weight, cents
\* for the price), the empty text, or text that is no number
Num(v) == [k |-> "num", v |-> v]
EmptyText == [k |-> "empty", v |-> 0]
BadText == [k |-> "bad", v |-> 0]

\* float(var.get() or 0)
ParseFloat(t) ==
    IF t.k = "bad" THEN [raised |-> TRUE, v |-> 0]
    ELSE [raised |-> FALSE, v |-> t.v]

Pad0(n, width) ==
    IF width = 3 /\ n < 10 THEN "00" \o ToString(n)
    ELSE IF (width = 3 /\ n < 100) \/ (width = 2 /\ n < 10)
         THEN "0" \o ToString(n)
         ELSE ToString(n)

\* f"{x:.3f}" of a number of thousandths, as one symbol
Fmt3(v) == <<ToString(v \div 1000) \o "." \o Pad0(v % 1000, 3)>>

\* f"{x:.2f}" of a number of cents, as one symbol
Fmt2(v) == <<ToString(v \div 100) \o "." \o Pad0(v % 100, 2)>>

-----------------------------------------------------------------------------
(* SerialDevice, send_to_printer_serial, send_to_printer_ip                *)

\* what the device or the network does during one call
SendOutcomes == {"ok", "open_fail", "write_fail", "close_fail"}

\* what a send returned: (ok, msg), with the transport, the port or host
\* and the payload it was called for, what the device did (o), and whether
\* the handle it opened is still open when it returns
SendResult(transport, addr, data, o, ok, msg, open_after) ==
    [transport |-> transport, addr |-> addr, data |-> data, outcome |-> o,
     ok |-> ok, msg |-> msg, raised |-> FALSE, open_after |-> open_after]

\* send_to_printer_serial with the fault of reporting success after a
\* failed write
SendSerialIgnoresWrite(port, data, o) ==
    IF port = <<>> \/ o = "open_fail"
    THEN SendResult("serial", port, data, "open_fail", FALSE, "error", FALSE)
    ELSE SendResult("serial", port, data, o, TRUE, "Sent to serial printer",
                    o # "ok")

\* sd.open() raises on an empty or unopenable port, sd.write() on a failed
\* write, and both land in the except; SerialDevice.close() swallows a
\* failure of ser.close()
send_to_printer_serial(port, data, o) ==
    IF port = <<>> \/ o = "open_fail"
    THEN SendResult("serial", port, data, "open_fail", FALSE, "error", FALSE)
    ELSE IF o = "write_fail"
    THEN SendResult("serial", port, data, o, FALSE, "error", TRUE)
    ELSE SendResult("serial", port, data, o, TRUE, "Sent to serial printer",
                    o = "close_fail")

\* socket(), connect, sendall and close are all inside the try
send_to_printer_ip(ip, data, o) ==
    IF o = "ok"
    THEN SendResult("ip", ip, data, o, TRUE, "Sent to network printer", FALSE)
    ELSE SendResult("ip", ip, data, o, FALSE, "error", TRUE)

-----------------------------------------------------------------------------
(* GaincoScale.read_weight                                                 *)

DigitVal(c) == CHOOSE n \in 0..9 : ToString(n) = c

\* the number of digits of s from position i on
RECURSIVE DigitRun(_, _)
DigitRun(s, i) ==
    IF i <= Len(s) /\ IsDigit(s[i]) THEN 1 + DigitRun(s, i + 1) ELSE 0

\* the value of the n digits of s from position i on
RECURSIVE IntVal(_, _, _)
IntVal(s, i, n) ==
    IF n = 0 THEN 0 ELSE 10 * IntVal(s, i, n - 1) + DigitVal(s[i + n - 1])

RECURSIVE Pow10(_)
Pow10(n) == IF n = 0 THEN 1 ELSE 10 * Pow10(n - 1)

\* [-+]?\d+\.\d+ at position i: the length matched, 0 for no match
DecimalAt(s, i) ==
    LET j == IF i <= Len(s) /\ s[i] \in {"+", "-"} THEN i + 1 ELSE i
        n1 == DigitRun(s, j)
        dot == j + n1
        n2 == DigitRun(s, dot + 1)
    IN IF n1 >= 1 /\ dot <= Len(s) /\ s[dot] = "." /\ n2 >= 1
       THEN (j - i) + n1 + 1 + n2
       ELSE 0

\* float() of the decimal matched at position i, in units of 0.0001 (the
\* lines of the model carry at most four fraction digits)
DecimalVal(s, i) ==
    LET neg == s[i] = "-"
        j == IF s[i] \in {"+", "-"} THEN i + 1 ELSE i
        n1 == DigitRun(s, j)
        n2 == DigitRun(s, j + n1 + 1)
        kept == IF n2 > 4 THEN 4 ELSE n2
        mag == IntVal(s, j, n1) * Pow10(4)
               + IntVal(s, j + n1 + 1, kept) * Pow10(4 - kept)
    IN IF neg THEN 0 - mag ELSE mag

\* re.search(r'([-+]?\d+\.\d+|\d+)', text) from position i on: the leftmost
\* match, the decimal alternative first; <<>> for no match, else <<value>>
RECURSIVE SearchNumber(_, _)
SearchNumber(s, i) ==
    IF i > Len(s) THEN <<>>
    ELSE IF DecimalAt(s, i) > 0 THEN <<DecimalVal(s, i)>>
    ELSE IF DigitRun(s, i) > 0
         THEN <<IntVal(s, i, DigitRun(s, i)) * Pow10(4)>>
         ELSE SearchNumber(s, i + 1)

\* what the scale does during one call: the port does not open, the read
\* fails, nothing arrives before the timeout, or a line arrives
ScaleLines ==
    {<<"3", ".", "2", "4", "9", "6">>,
     <<"S", "T", ",", "+", "0", ".", "3", "0", "0", "0", " ", "l", "b", "\r", "\n">>,
     <<"-", "1", ".", "5", "0", "0", "0">>,
     <<"l", "b">>}

ScaleOutcomes ==
    {[k |-> "open_fail", raw |-> <<>>], [k |-> "read_fail", raw |-> <<>>],
     [k |-> "no_data", raw |-> <<>>]}
    \cup {[k |-> "line", raw |-> l] : l \in ScaleLines}

\* (wt, info): wt is <<>> for None
read_weight(port, o) ==
    IF port = <<>> \/ o.k = "open_fail" \/ o.k = "read_fail"
    THEN [port |-> port, outcome |-> o.k, wt |-> <<>>, info |-> <<"error">>,
          closed |-> o.k # "read_fail"]
    ELSE IF o.k = "no_data" \/ o.raw = <<>>
    THEN [port |-> port, outcome |-> o.k, wt |-> <<>>,
          info |-> <<"No data">>, closed |-> TRUE]
    ELSE LET text == Strip(o.raw) IN
         [port |-> port, outcome |-> o.k, wt |-> SearchNumber(text, 1),
          info |-> text, closed |-> TRUE]

-----------------------------------------------------------------------------
(* The products table and the files the application reads                  *)

T1 == <<"T1">>
T2 == <<"T2">>

\* the product codes rows are saved under; T2 is only ever typed
StoreCodes == {T1}

SEP == " - "

DIGITS11 == <<"0", "1", "2", "3", "4", "5", "6", "7", "8", "9", "0">>

CUSTOM_TXT == <<"custom.txt">>
LOGO_PNG == <<"logo.png">>

Row(code, description, upc, tare, label_format, price_per_lb, logo_path) ==
    [product_code |-> code, description |-> description, upc |-> upc,
     sell_by |-> <<"11/27">>, tare |-> tare, label_format |-> label_format,
     price_per_lb |-> price_per_lb, logo_path |-> logo_path]

\* the rows the product form and add_or_update_product save under a code
Rows(code) ==
    {Row(code, <<"TURKEY">>, DIGITS11, <<5000>>, None, <<199>>, None),
     Row(code, None, None, <<>>, None, <<>>, None),
     Row(code, Token("PRICE"), <<"1", "2", "A">>, <<0>>, CUSTOM_TXT, <<199>>,
         LOGO_PNG)}

\* the content of the label_format file of the third row
CustomTemplate ==
    Token("DESCRIPTION") \o <<"\n">> \o UPC_BARCODE \o <<"\n", "Weight: ">>
    \o Token("WEIGHT") \o <<" lb", "\n", "Price: $">> \o Token("PRICE")

\* the f-string of print_label, evaluated: "{{" and "}}" in an f-string are
\* one brace each, and {{{ { 'UPC' } }}} is "{" + str({'UPC'}) + "}"
DefaultTemplate(prod) ==
    Str(prod.description)
    \o <<"\n", "{", "{", "'UPC'", "}", "}", "\n", "{", "UPC_BARCODE", "}",
         "\n", "Weight: ", "{", "WEIGHT", "}", " lb", "\n", "Price: $", "{",
         "PRICE", "}">>

\* the template of test_print
SampleTemplate ==
    <<"SAMPLE LABEL", "\n">> \o UPC_BARCODE \o <<"\n", "Weight: ">>
    \o Token("WEIGHT") \o <<"\n", "Price: $">> \o Token("PRICE")

SampleValues ==
    <<<<"UPC", DIGITS11>>, <<"WEIGHT", <<"1.234">>>>, <<"PRICE", <<"3.45">>>>,
      <<"LOGO_PATH", <<>>>>>>

\* the file picked in manual_print_template
RawTemplate ==
    <<"L", "\n">> \o Token("PRODUCT_CODE") \o <<" ">> \o Token("DESCRIPTION")
    \o <<"\n">> \o Token("WEIGHT") \o <<" ">> \o Token("PRICE") \o <<" ">>
    \o Token("UPC") \o <<"\n", "E">>

\* how a file the application opens is found: readable, absent, or present
\* and unreadable
FileStates == {"ok", "missing", "unreadable"}

\* the file systems a render of the application runs against
AppRenderEnvs ==
    {RenderEnv({LOGO_PNG}, {LOGO_PNG}, TRUE, w) : w \in BOOLEAN}

\* str(x) of a float column, as one symbol
FloatStr(col) == IF col = <<>> THEN None ELSE <<ToString(col[1])>>

-----------------------------------------------------------------------------
(* init_db, get_setting, set_setting                                       *)

\* a database file without the settings table
NoSettings == [exists |-> FALSE, rows |-> <<>>]

\* the rows get_setting inserts when it finds no settings table
DefaultSettings ==
    ("touch_keyboard" :> <<"1">>) @@ ("scale_port" :> <<"COM2">>)
    @@ ("printer_port" :> <<"COM1">>)

\* init_db as the module defines it last: CREATE TABLE IF NOT EXISTS
\* products, and nothing about settings
init_db(s) == s

\* get_setting: the value returned and the table it leaves behind
get_setting(s, key, default) ==
    IF ~s.exists
    THEN [settings |-> [exists |-> TRUE, rows |-> DefaultSettings],
          value |-> default]
    ELSE [settings |-> s,
          value |-> IF key \in DOMAIN s.rows THEN s.rows[key] ELSE default]

\* set_setting: REPLACE INTO settings, outside any try
set_setting(s, key, value) ==
    IF ~s.exists THEN [settings |-> s, raised |-> "OperationalError"]
    ELSE [settings |-> [exists |-> TRUE, rows |-> (key :> value) @@ s.rows],
          raised |-> ""]

\* the script run as a program: init_db(), get_setting("touch_keyboard",
\* "1"), then App(root), whose __init__ calls init_db() again
Startup ==
    init_db(get_setting(init_db(NoSettings), "touch_keyboard", <<"1">>).settings)

-----------------------------------------------------------------------------
(* class App: the handlers                                                 *)

\* what a handler did: the exception that left it ("" for none), the
\* message boxes it showed, the scale reads, renders and sends it made
Obs(action, raised, reports, scale, renders, sends) ==
    [action |-> action, raised |-> raised, reports |-> reports,
     scale |-> scale, renders |-> renders, sends |-> sends]

Idle == Obs("none", "", <<>>, <<>>, <<>>, <<>>)

\* the entry of a product in the combobox list: f"{r[0]} - {r[1]}"
Entry(row) == row.product_code \o <<SEP>> \o Str(row.description)

\* text.split(' - ')[0]
RECURSIVE SplitFirst(_)
SplitFirst(text) ==
    IF text = <<>> \/ Head(text) = SEP THEN <<>>
    ELSE <<Head(text)>> \o SplitFirst(Tail(text))

\* sel = self.selected_product.get().split(' - ')[0] if ... else None
SelCode(text) == IF text = <<>> THEN None ELSE SplitFirst(text)

\* get_product: <<>> for no row, else <<row>>
get_product(st, code) == IF code \in DOMAIN st THEN <<st[code]>> ELSE <<>>

\* tare of the selected product in read_weight, in units of 0.0001 lb
TareOf(st, text) ==
    LET sel == SelCode(text) IN
    IF ~Truthy(sel) THEN 0
    ELSE IF get_product(st, sel) = <<>> THEN 0
    ELSE Or0(get_product(st, sel)[1].tare)

\* NetWeight with the fault of not clamping at zero
NetWeightNoClamp(wt, tare) == wt - tare

\* net = wt - tare; if net < 0: net = 0.0
NetWeight(wt, tare) == IF wt - tare < 0 THEN 0 ELSE wt - tare

\* App_read_weight with the fault of resetting the weight field when the
\* scale gave no number
AppReadWeightResets(st, text, weight, o) ==
    LET r == read_weight(<<"COM2">>, o) IN
    IF r.wt = <<>>
    THEN [weight |-> Num(0),
          obs |-> Obs("read_weight", "", <<"error">>, <<r>>, <<>>, <<>>)]
    ELSE LET net == NetWeight(r.wt[1], TareOf(st, text)) IN
         [weight |-> Num(RoundDiv(net, 10)),
          obs |-> Obs("read_weight", "", <<"info">>, <<r>>, <<>>, <<>>)]

\* App.read_weight: the new weight text and what was done
App_read_weight(st, text, weight, o) ==
    LET r == read_weight(<<"COM2">>, o) IN
    IF r.wt = <<>>
    THEN [weight |-> weight,
          obs |-> Obs("read_weight", "", <<"error">>, <<r>>, <<>>, <<>>)]
    ELSE LET net == NetWeight(r.wt[1], TareOf(st, text)) IN
         [weight |-> Num(RoundDiv(net, 10)),
          obs |-> Obs("read_weight", "", <<"info">>, <<r>>, <<>>, <<>>)]

\* PriceCents with the fault of cutting the fraction off
PriceCentsTruncated(weight, price_per_lb) == (weight * price_per_lb) \div 1000

\* f"{weight * price_per_lb:.2f}", in cents: weight in thousandths of a
\* pound, price_per_lb in cents
PriceCents(weight, price_per_lb) == RoundDiv(weight * price_per_lb, 1000)

\* UseIp with the fault of looking at the mode alone
UseIpModeOnly(mode, ip) == mode = "ip"

\* self.printer_mode.get() == 'ip' and self.printer_ip.get()
UseIp(mode, ip) == mode = "ip" /\ ip # <<>>

\* the bytes of the rendered image file
PNG == <<"PNG">>

\* the send of print_label, test_print: one transport, picked by UseIp
Send(mode, ip, port, data, o) ==
    IF UseIp(mode, ip) THEN send_to_printer_ip(ip, data, o)
    ELSE send_to_printer_serial(port, data, o)

SendReport(send) == IF send.ok THEN "info" ELSE "error"

\* a send that failed returns without closing the SerialDevice or socket
\* it opened, and the object goes out of scope: a runtime that finalizes
\* objects as their last reference goes (gc) closes the handle then, any
\* other leaves it open until some later collection
Finalized(obs, gc) ==
    LET sends == obs.sends IN
    [obs EXCEPT !.sends = [i \in 1..Len(sends) |->
                              [sends[i] EXCEPT !.open_after = @ /\ ~gc]]]

\* the early returns of print_label with the fault of clearing the price
PrintMissClearsPrice(price, report) ==
    [price |-> Num(0),
     obs |-> Obs("print_label", "", <<report>>, <<>>, <<>>, <<>>)]

\* the early returns of print_label: a message box, and nothing else
PrintMiss(price, report) ==
    [price |-> price,
     obs |-> Obs("print_label", "", <<report>>, <<>>, <<>>, <<>>)]

\* AfterRender with the fault of sending whatever the renderer did
AfterRenderAlwaysSends(render, mode, ip, port, o) ==
    LET send == Send(mode, ip, port, PNG, o) IN
    Obs("print_label", "", <<SendReport(send)>>, <<>>, <<render>>, <<send>>)

\* print_label from the end of the render on
AfterRender(render, mode, ip, port, o) ==
    IF render.out.raised
    THEN Obs("print_label", "", <<"error">>, <<>>, <<render>>, <<>>)
    ELSE LET send == Send(mode, ip, port, PNG, o) IN
         Obs("print_label", "", <<SendReport(send)>>, <<>>, <<render>>,
             <<send>>)

\* the token map of print_label
LabelValues(prod, weight, total) ==
    <<<<"PRODUCT_CODE", prod.product_code>>,
      <<"DESCRIPTION", prod.description>>,
      <<"UPC", prod.upc>>,
      <<"SELL_BY", prod.sell_by>>,
      <<"TARE", FloatStr(prod.tare)>>,
      <<"WEIGHT", Fmt3(weight)>>,
      <<"PRICE", Fmt2(total)>>,
      <<"PRICE_PER_LB", Fmt2(Or0(prod.price_per_lb))>>,
      <<"LOGO_PATH", prod.logo_path>>>>

\* App.print_label: the new price text and what was done.  tf is how the
\* label_format file is found, env the file system of the render, o what
\* the printer does
App_print_label(st, text, weight, price, mode, ip, port, tf, env, o) ==
    LET sel == SelCode(text) IN
    IF ~Truthy(sel) THEN PrintMiss(price, "warning")
    ELSE IF get_product(st, sel) = <<>> THEN PrintMiss(price, "error")
    ELSE
    LET prod == get_product(st, sel)[1]
        w == ParseFloat(weight)
        total == PriceCents(w.v, Or0(prod.price_per_lb))
        template_file == IF Truthy(prod.label_format) THEN prod.label_format
                         ELSE <<>>
        custom == Truthy(template_file) /\ tf # "missing"
        template == IF custom THEN CustomTemplate ELSE DefaultTemplate(prod)
        values == LabelValues(prod, w.v, total)
        render == [template |-> template, values |-> values,
                   out |-> render_label_as_image(template, values, env)]
    IN IF w.raised
       THEN [price |-> price,
             obs |-> Obs("print_label", "ValueError", <<>>, <<>>, <<>>, <<>>)]
       ELSE IF custom /\ tf = "unreadable"
       THEN [price |-> Num(total),
             obs |-> Obs("print_label", "OSError", <<>>, <<>>, <<>>, <<>>)]
       ELSE [price |-> Num(total),
             obs |-> AfterRender(render, mode, ip, port, o)]

\* out = tpl; for k,v in subs.items(): out = out.replace(k,v)
RECURSIVE ReplaceAll(_, _, _)
ReplaceAll(out, subs, i) ==
    IF i > Len(subs) THEN out
    ELSE ReplaceAll(Replace(out, Token(subs[i][1]), subs[i][2]), subs, i + 1)

\* App.manual_print_template.  pf is how the picked file is found
\* ("missing": the dialog was cancelled)
App_manual_print_template(st, text, weight, price, port, pf, o) ==
    LET sel == SelCode(text)
        prod == IF Truthy(sel) THEN get_product(st, sel) ELSE <<>>
        w == ParseFloat(weight)
        p == ParseFloat(price)
        subs == <<<<"PRODUCT_CODE",
                    IF prod # <<>> THEN prod[1].product_code ELSE <<>>>>,
                  <<"DESCRIPTION",
                    IF prod # <<>> THEN prod[1].description ELSE <<>>>>,
                  <<"WEIGHT", Fmt3(w.v)>>,
                  <<"PRICE", Fmt2(p.v)>>>>
        send == send_to_printer_serial(port, ReplaceAll(RawTemplate, subs, 1),
                                       o)
    IN IF pf = "missing" THEN Obs("manual_print", "", <<>>, <<>>, <<>>, <<>>)
       ELSE IF pf = "unreadable"
       THEN Obs("manual_print", "OSError", <<>>, <<>>, <<>>, <<>>)
       ELSE IF w.raised \/ p.raised
       THEN Obs("manual_print", "ValueError", <<>>, <<>>, <<>>, <<>>)
       ELSE IF prod # <<>> /\ prod[1].description = None
       THEN Obs("manual_print", "TypeError", <<>>, <<>>, <<>>, <<>>)
       ELSE Obs("manual_print", "", <<SendReport(send)>>, <<>>, <<>>,
                <<send>>)

\* App.test_print: the render is outside any try
App_test_print(mode, ip, port, env, o) ==
    LET render == [template |-> SampleTemplate, values |-> SampleValues,
                   out |-> render_label_as_image(SampleTemplate, SampleValues,
                                                 env)]
        send == Send(mode, ip, port, PNG, o)
    IN IF render.out.raised
       THEN Obs("test_print", "OSError", <<>>, <<>>, <<render>>, <<>>)
       ELSE Obs("test_print", "", <<SendReport(send)>>, <<>>, <<render>>,
                <<send>>)

\* App.test_scale_connection, and the serial branch of
\* App.test_printer_connection: open and close inside a try
TestOpen(action, port, o) ==
    IF port = <<>> \/ o = "open_fail"
    THEN Obs(action, "", <<"error">>, <<>>, <<>>, <<>>)
    ELSE Obs(action, "", <<"info">>, <<>>, <<>>, <<>>)

\* App.test_printer_connection
App_test_printer_connection(mode, ip, port, o) ==
    IF UseIp(mode, ip)
    THEN LET send == send_to_printer_ip(ip, <<"TEST">>, o) IN
         Obs("test_printer", "", <<SendReport(send)>>, <<>>, <<>>, <<send>>)
    ELSE TestOpen("test_printer", port, o)

-----------------------------------------------------------------------------
(* Bounds and inputs                                                       *)

\* the longest run of characters of a UPC argument, and the most blanks on
\* either side of it
MaxUpcLen == 14
MaxPad == 1

\* the most lines of a template handed to the renderer
MaxLines == 2

\* n characters, the i-th the digit i mod 10: a text whose ends differ
DigitBody(n) == [i \in 1..n |-> ToString(i % 10)]

UpcBodies ==
    {DigitBody(n) : n \in 0..MaxUpcLen}
    \cup {[DigitBody(n) EXCEPT ![1] = "A"] : n \in 1..MaxUpcLen}

Blanks(n) == [i \in 1..n |-> " "]

UpcInputs ==
    {Blanks(l) \o sign \o body \o Blanks(r) :
        l \in 0..MaxPad, r \in 0..MaxPad, sign \in {<<>>, <<"-">>},
        body \in UpcBodies}

LinePool ==
    {<<"x">>,
     <<"{", "UPC", "}">>,
     Token("DESCRIPTION"),
     Token("FOO"),
     UPC_BARCODE,
     <<"$">> \o Token("PRICE") \o <<" ">> \o Token("PRICE"),
     <<"{">> \o Token("UPC") \o <<"}">>}

RECURSIVE Join(_)
Join(ls) ==
    IF Len(ls) = 1 THEN ls[1] ELSE ls[1] \o <<"\n">> \o Join(Tail(ls))

Templates ==
    UNION {{Join(ls) : ls \in [1..n -> LinePool]} : n \in 1..MaxLines}

RenderMaps ==
    {<<<<"DESCRIPTION", d>>, <<"UPC", u>>, <<"PRICE", <<"6.47">>>>,
       <<"LOGO_PATH", l>>>> :
        d \in {<<"TURKEY">>, Token("PRICE"), UPC_BARCODE},
        u \in {DIGITS11, <<"1", "2", "A">>, None},
        l \in {None, LOGO_PNG}}
    \cup {SampleValues}
    \cup {<<<<"DESCRIPTION", <<"TURKEY">>>>, <<"UPC", DIGITS11>>,
             <<"LOT", <<"L42">>>>, <<"LOGO_PATH", None>>>>}
    \cup {<<<<"DESCRIPTION", <<"TURKEY">>>>, <<"UPC", u>>,
             <<"LOGO_PATH", None>>>> :
              u \in {<<>>, <<" ", "4", "2">>, DIGITS11 \o <<"1", "2", "3">>}}
    \cup {<<<<"DESCRIPTION", <<"TURKEY">>>>, <<"LOGO_PATH", None>>>>}

RenderEnvs ==
    {RenderEnv(f, f, t, w) : f \in {{}, {LOGO_PNG}}, t \in BOOLEAN,
                             w \in BOOLEAN}
    \cup {RenderEnv({LOGO_PNG}, {}, TRUE, TRUE)}

\* the lines a scale sends: noise, a sign, a number, a unit and line end
ScalePrefixes == {<<>>, <<"S", "T", ",">>, <<"x", " ">>}
ScaleSigns == {<<>>, <<"+">>, <<"-">>}
ScaleNumbers ==
    {<<>>, <<"5">>, <<"1", "2", ".", "5", "0">>, <<"0", ".", "3", "0", "0", "0">>,
     <<"7", ".">>, <<"4", "0", " ", "2", ".", "5">>}
ScaleSuffixes == {<<>>, <<" ", "l", "b", "\r", "\n">>}

ScaleTexts ==
    {a \o b \o c \o d : a \in ScalePrefixes, b \in ScaleSigns,
                        c \in ScaleNumbers, d \in ScaleSuffixes}

ScaleInputs ==
    {[k |-> "open_fail", raw |-> <<>>], [k |-> "read_fail", raw |-> <<>>],
     [k |-> "no_data", raw |-> <<>>]}
    \cup {[k |-> "line", raw |-> l] : l \in ScaleTexts \ {<<>>}}

ComboTexts == {<<>>, T1 \o <<SEP, "TURKEY">>, T2}

\* the product tables left by earlier runs: codes and descriptions with
\* and without the separator in them
SelectCodes == {T1, <<"A", SEP, "B">>}
SelectDescriptions == {<<"TURKEY">>, <<"C", SEP, "D">>}

SelectStores ==
    UNION {{[c \in S |-> Row(c, d[c], DIGITS11, <<5000>>, None, <<199>>, None)] :
               d \in [S -> SelectDescriptions]} : S \in SUBSET SelectCodes}

\* the keys and values set_setting is called with
SettingKeys == {"touch_keyboard", "scale_port", "printer_port"}
SettingValues == {<<"COM5">>, <<"0">>}

Modes == {"serial", "ip"}

IpTexts == {<<>>, <<"10.0.0.5">>}

-----------------------------------------------------------------------------
(* The state machines                                                      *)

UpcNotCalled == [called |-> FALSE, raised |-> FALSE, digits |-> <<>>]

RenderNotCalled ==
    [called |-> FALSE, raised |-> FALSE, saved |-> FALSE, logo |-> FALSE,
     ops |-> <<>>, y |-> 0]

UpcIdle == upc_in = <<>> /\ upc_out = UpcNotCalled

RenderIdle ==
    /\ r_template = <<>>
    /\ r_values = <<>>
    /\ r_env = RenderEnv({}, {}, TRUE, TRUE)
    /\ r_out = RenderNotCalled

ScaleNotCalled ==
    [called |-> FALSE, port |-> <<>>, outcome |-> "none", wt |-> <<>>,
     info |-> <<>>, closed |-> TRUE]

ScaleIdle == sc_in = [k |-> "no_data", raw |-> <<>>] /\ sc_out = ScaleNotCalled

\* the fields App.__init__ sets
AppWidgets ==
    /\ selected_product = <<>>
    /\ weight_var = Num(0)
    /\ price_var = Num(0)
    /\ printer_mode = "serial"
    /\ printer_ip = <<>>
    /\ printer_port = <<"COM1">>
    /\ last = Idle
    /\ label_file = "missing"

\* the fields App.__init__ sets, on a fresh database
AppFields == store = <<>> /\ AppWidgets

\* the application started as a program
AppInit == AppFields /\ settings = Startup

\* ---- generate_upc_barcode on one input

InitUpc ==
    /\ upc_in \in UpcInputs
    /\ upc_out = UpcNotCalled
    /\ RenderIdle
    /\ ScaleIdle
    /\ AppInit

GenerateUpc ==
    /\ ~upc_out.called
    /\ \E tmpWritable \in BOOLEAN :
          upc_out' = [called |-> TRUE] @@ generate_upc_barcode(upc_in, tmpWritable)
    /\ UNCHANGED <<upc_in, renderVars, scaleVars, appVars>>

NextUpc == GenerateUpc

SpecUpc == InitUpc /\ [][NextUpc]_vars

\* ---- render_label_as_image on one template, token map and file system

InitRender ==
    /\ r_template \in Templates
    /\ r_values \in RenderMaps
    /\ r_env \in RenderEnvs
    /\ r_out = RenderNotCalled
    /\ UpcIdle
    /\ ScaleIdle
    /\ AppInit

Render ==
    /\ ~r_out.called
    /\ r_out' = [called |-> TRUE]
                @@ render_label_as_image(r_template, r_values, r_env)
    /\ UNCHANGED <<r_template, r_values, r_env, upcVars, scaleVars, appVars>>

NextRender == Render

SpecRender == InitRender /\ [][NextRender]_vars

\* ---- GaincoScale.read_weight on one answer of the scale

InitScale ==
    /\ sc_in \in ScaleInputs
    /\ sc_out = ScaleNotCalled
    /\ UpcIdle
    /\ RenderIdle
    /\ AppInit

ReadScale ==
    /\ ~sc_out.called
    /\ sc_out' = [called |-> TRUE] @@ read_weight(<<"COM2">>, sc_in)
    /\ UNCHANGED <<sc_in, upcVars, renderVars, appVars>>

NextScale == ReadScale

SpecScale == InitScale /\ [][NextScale]_vars

\* ---- the settings helpers, called in any order on a fresh database
\* file, next to the handlers that open the scale and printer ports

InitSettings ==
    /\ UpcIdle
    /\ RenderIdle
    /\ ScaleIdle
    /\ AppFields
    /\ settings = NoSettings

InitDb ==
    /\ last = Idle
    /\ settings' = init_db(settings)
    /\ last' = Obs("init_db", "", <<>>, <<>>, <<>>, <<>>)
    /\ UNCHANGED <<store, selected_product, weight_var, price_var,
                   printer_mode, printer_ip, printer_port, label_file,
                   upcVars, renderVars, scaleVars>>

GetSetting ==
    /\ last = Idle
    /\ \E key \in SettingKeys :
          LET r == get_setting(settings, key, <<>>) IN
          /\ settings' = r.settings
          /\ last' = [value |-> r.value]
                      @@ Obs("get_setting", "", <<>>, <<>>, <<>>, <<>>)
    /\ UNCHANGED <<store, selected_product, weight_var, price_var,
                   printer_mode, printer_ip, printer_port, label_file,
                   upcVars, renderVars, scaleVars>>

SetSetting ==
    /\ last = Idle
    /\ \E key \in SettingKeys, value \in SettingValues :
          LET r == set_setting(settings, key, value) IN
          /\ settings' = r.settings
          /\ last' = Obs("set_setting", r.raised, <<>>, <<>>, <<>>, <<>>)
    /\ UNCHANGED <<store, selected_product, weight_var, price_var,
                   printer_mode, printer_ip, printer_port, label_file,
                   upcVars, renderVars, scaleVars>>

\* ---- the application started on a database that holds products: the
\* user picks entries of the product list and reads, prints

InitSelect ==
    /\ UpcIdle
    /\ RenderIdle
    /\ ScaleIdle
    /\ store \in SelectStores
    /\ AppWidgets
    /\ settings = Startup

\* the user picks an entry of the list reload_products filled
SelectEntry ==
    /\ last = Idle
    /\ \E c \in DOMAIN store : selected_product' = Entry(store[c])
    /\ UNCHANGED <<store, weight_var, price_var, printer_mode, printer_ip,
                   printer_port, last, upcVars, renderVars, scaleVars,
                   diskVars>>

\* ---- the application

Init == UpcIdle /\ RenderIdle /\ ScaleIdle /\ AppInit

\* the user picks or types the product
SelectProduct ==
    /\ last = Idle
    /\ \E text \in ComboTexts : selected_product' = text
    /\ UNCHANGED last
    /\ UNCHANGED <<store, weight_var, price_var, printer_mode, printer_ip,
                   printer_port, upcVars, renderVars, scaleVars, diskVars>>

\* the user types into the weight entry
EditWeight ==
    /\ last = Idle
    /\ \E t \in {EmptyText, BadText} : weight_var' = t
    /\ UNCHANGED last
    /\ UNCHANGED <<store, selected_product, price_var, printer_mode,
                   printer_ip, printer_port, upcVars, renderVars, scaleVars, diskVars>>

\* the user sets the printer mode and IP in the options window
SetOptions ==
    /\ last = Idle
    /\ \E m \in Modes, ip \in IpTexts :
          printer_mode' = m /\ printer_ip' = ip
    /\ UNCHANGED last
    /\ UNCHANGED <<store, selected_product, weight_var, price_var,
                   printer_port, upcVars, renderVars, scaleVars, diskVars>>

\* the label_format file is written, removed, or made unreadable
ChangeFile ==
    /\ last = Idle
    /\ \E f \in FileStates : label_file' = f
    /\ UNCHANGED <<store, selected_product, weight_var, price_var,
                   printer_mode, printer_ip, printer_port, last, upcVars,
                   renderVars, scaleVars, settings>>

\* add_or_update_product
SaveProduct ==
    /\ last = Idle
    /\ \E c \in StoreCodes : \E row \in Rows(c) : store' = (c :> row) @@ store
    /\ UNCHANGED last
    /\ UNCHANGED <<selected_product, weight_var, price_var, printer_mode,
                   printer_ip, printer_port, upcVars, renderVars, scaleVars, diskVars>>

\* delete_product_tree
DeleteProduct ==
    /\ last = Idle
    /\ \E c \in DOMAIN store :
          store' = [d \in DOMAIN store \ {c} |-> store[d]]
    /\ last' = Obs("delete_product", "", <<"info">>, <<>>, <<>>, <<>>)
    /\ UNCHANGED <<selected_product, weight_var, price_var, printer_mode,
                   printer_ip, printer_port, upcVars, renderVars, scaleVars, diskVars>>

ReadWeight ==
    /\ last = Idle
    /\ \E o \in ScaleOutcomes :
          LET r == App_read_weight(store, selected_product, weight_var, o)
          IN weight_var' = r.weight /\ last' = r.obs
    /\ UNCHANGED <<store, selected_product, price_var, printer_mode,
                   printer_ip, printer_port, upcVars, renderVars, scaleVars, diskVars>>

PrintLabel ==
    /\ last = Idle
    /\ \E env \in AppRenderEnvs, o \in SendOutcomes, gc \in BOOLEAN :
          LET r == App_print_label(store, selected_product, weight_var,
                                   price_var, printer_mode, printer_ip,
                                   printer_port, label_file, env, o)
          IN price_var' = r.price /\ last' = Finalized(r.obs, gc)
    /\ UNCHANGED <<store, selected_product, weight_var, printer_mode,
                   printer_ip, printer_port, upcVars, renderVars, scaleVars, diskVars>>

ManualPrint ==
    /\ last = Idle
    /\ \E pf \in FileStates, o \in SendOutcomes, gc \in BOOLEAN :
          last' = Finalized(App_manual_print_template(store, selected_product,
                                                      weight_var, price_var,
                                                      printer_port, pf, o),
                            gc)
    /\ UNCHANGED <<store, selected_product, weight_var, price_var,
                   printer_mode, printer_ip, printer_port, upcVars,
                   renderVars, scaleVars, diskVars>>

TestPrint ==
    /\ last = Idle
    /\ \E env \in AppRenderEnvs, o \in SendOutcomes, gc \in BOOLEAN :
          last' = Finalized(App_test_print(printer_mode, printer_ip,
                                           printer_port, env, o), gc)
    /\ UNCHANGED <<store, selected_product, weight_var, price_var,
                   printer_mode, printer_ip, printer_port, upcVars,
                   renderVars, scaleVars, diskVars>>

TestScaleConnection ==
    /\ last = Idle
    /\ \E o \in {"ok", "open_fail"} :
          last' = TestOpen("test_scale", <<"COM2">>, o)
    /\ UNCHANGED <<store, selected_product, weight_var, price_var,
                   printer_mode, printer_ip, printer_port, upcVars,
                   renderVars, scaleVars, diskVars>>

TestPrinterConnection ==
    /\ last = Idle
    /\ \E o \in SendOutcomes, gc \in BOOLEAN :
          last' = Finalized(App_test_printer_connection(printer_mode,
                                                        printer_ip,
                                                        printer_port, o), gc)
    /\ UNCHANGED <<store, selected_product, weight_var, price_var,
                   printer_mode, printer_ip, printer_port, upcVars,
                   renderVars, scaleVars, diskVars>>

\* the handler returns and the main loop waits for the next event
Return ==
    /\ last # Idle
    /\ last' = Idle
    /\ UNCHANGED <<store, selected_product, weight_var, price_var,
                   printer_mode, printer_ip, printer_port, upcVars,
                   renderVars, scaleVars, diskVars>>

Next ==
    \/ SelectProduct
    \/ EditWeight
    \/ SetOptions
    \/ ChangeFile
    \/ SaveProduct
    \/ DeleteProduct
    \/ ReadWeight
    \/ PrintLabel
    \/ ManualPrint
    \/ TestPrint
    \/ TestScaleConnection
    \/ TestPrinterConnection
    \/ Return

Spec == Init /\ [][Next]_vars

NextSettings ==
    \/ InitDb
    \/ GetSetting
    \/ SetSetting
    \/ ReadWeight
    \/ ManualPrint
    \/ Return

SpecSettings == InitSettings /\ [][NextSettings]_vars

NextSelect ==
    \/ SelectEntry
    \/ ReadWeight
    \/ PrintLabel
    \/ ManualPrint
    \/ Return

SpecSelect == InitSelect /\ [][NextSelect]_vars

-----------------------------------------------------------------------------
(* Properties                                                              *)

Abs(n) == IF n < 0 THEN 0 - n ELSE n

Max(a, b) == IF a >= b THEN a ELSE b

AllDigits(s) == \A i \in 1..Len(s) : IsDigit(s[i])

\* C1 as stated: a digit string of 11 or 12 characters is normalized to
\* itself, an input of fewer than 11 characters to itself with zeros put in
\* front up to 11 characters, an input of more than 12 characters to its
\* last 12 characters.
C1_AsStated ==
    upc_out.called =>
        /\ (Len(upc_in) \in {UpcShort, UpcLong} /\ AllDigits(upc_in))
               => upc_out.digits = upc_in
        /\ Len(upc_in) < UpcShort
               => upc_out.digits = Zeros(UpcShort - Len(upc_in)) \o upc_in
        /\ Len(upc_in) > UpcLong
               => upc_out.digits
                      = SubSeq(upc_in, Len(upc_in) - UpcLong + 1, Len(upc_in))

\* C1 amended: normalization acts on the input with the blanks at its two
\* ends removed.  With t that text: t of 11 or 12 characters is the result;
\* t of fewer than 11 characters is filled with zeros to exactly 11
\* characters, the zeros in front of t, or right after its sign when t
\* begins with "+" or "-"; t of more than 12 characters gives exactly its
\* last 12 characters.
C1_Normalization ==
    upc_out.called =>
        LET t == Strip(upc_in)
            d == upc_out.digits
            k == UpcShort - Len(t)
            signed == t # <<>> /\ t[1] \in {"+", "-"}
        IN /\ Len(t) \in {UpcShort, UpcLong} => d = t
           /\ Len(t) < UpcShort =>
                 /\ Len(d) = UpcShort
                 /\ IF signed
                    THEN /\ d[1] = t[1]
                         /\ \A i \in 2..(k + 1) : d[i] = "0"
                         /\ \A i \in 2..Len(t) : d[k + i] = t[i]
                    ELSE /\ \A i \in 1..k : d[i] = "0"
                         /\ \A i \in 1..Len(t) : d[k + i] = t[i]
           /\ Len(t) > UpcLong =>
                 /\ Len(d) = UpcLong
                 /\ \A i \in 1..UpcLong : d[i] = t[Len(t) - UpcLong + i]

\* an input with a blank at an end whose text is still longer than 12
C1_Witness ==
    /\ upc_out.called
    /\ Strip(upc_in) # upc_in
    /\ Len(Strip(upc_in)) > UpcLong
    /\ Len(upc_out.digits) = UpcLong

\* the gross weight the scale reader returned to the handler that ran last
LastGross == last.scale[1].wt[1]

\* the tare the claim names: that of the selected product, 0 when none is
\* selected, the product is missing or its tare is null
ClaimedTare ==
    LET code == SplitFirst(selected_product) IN
    IF selected_product = <<>> THEN 0
    ELSE IF code \notin DOMAIN store THEN 0
    ELSE IF store[code].tare = <<>> THEN 0
    ELSE store[code].tare[1]

FoundProduct ==
    /\ selected_product # <<>>
    /\ SplitFirst(selected_product) \in DOMAIN store

ClaimedPricePerLb ==
    LET col == store[SplitFirst(selected_product)].price_per_lb IN
    IF col = <<>> THEN 0 ELSE col[1]

\* C3: after a print action that found its product (the weight field
\* holding a number or nothing), the price field is weight * price_per_lb
\* to the nearest cent, and so is the PRICE token handed to the renderer;
\* 3.250 lb at 1.99 gives 6.47.
C3_TotalPrice ==
    (last.action = "print_label" /\ FoundProduct /\ weight_var.k # "bad") =>
        /\ price_var.k = "num"
        /\ 2 * Abs(1000 * price_var.v - weight_var.v * ClaimedPricePerLb)
               <= 1000
        /\ (weight_var = Num(3250) /\ ClaimedPricePerLb = 199)
               => price_var = Num(647)
        /\ \A i \in 1..Len(last.renders) :
               Get(last.renders[i].values, "PRICE") = Fmt2(price_var.v)

C3_Witness ==
    /\ last.action = "print_label"
    /\ FoundProduct
    /\ weight_var = Num(3250)
    /\ ClaimedPricePerLb = 199
    /\ price_var = Num(647)
    /\ Len(last.renders) = 1

\* the lines of the template of the render, and the UPC it encodes
RenderLines == Split(r_template)

RenderUpc ==
    IF Truthy(Get(r_values, "UPC")) THEN Strip(Get(r_values, "UPC")) ELSE <<>>

\* the barcode of the render cannot be made: the UPC holds a character that
\* is no digit, or the barcode's temporary file cannot be written
BarcodeFails == ~AllDigits(RenderUpc) \/ ~r_env.tmpWritable

\* the cursor after the i-th operation of the render
CursorAfter(i) ==
    IF i < Len(r_out.ops) THEN r_out.ops[i + 1].y ELSE r_out.y

\* C4: when the template has a {{UPC_BARCODE}} line and the barcode cannot
\* be made, the render does not raise (it raises only when the output file
\* cannot be written), every line of the template is still drawn, and each
\* {{UPC_BARCODE}} line is the text 'ERR: barcode' at the cursor, which then
\* advances by the fixed 20.
C4_BarcodeFailureIsDrawn ==
    (/\ r_out.called
     /\ BarcodeFails
     /\ \E i \in 1..Len(RenderLines) : Contains(RenderLines[i], UPC_BARCODE))
    =>
        /\ r_out.raised = ~r_env.outWritable
        /\ Len(r_out.ops) = Len(RenderLines)
        /\ r_out.ops[1].y = StartY
        /\ \A i \in 1..Len(RenderLines) :
              IF Contains(RenderLines[i], UPC_BARCODE)
              THEN /\ r_out.ops[i].op = "text"
                   /\ r_out.ops[i].arg = ERR_BARCODE
                   /\ r_out.ops[i].x = BarcodeX
                   /\ CursorAfter(i) = r_out.ops[i].y + ErrHeight
              ELSE r_out.ops[i].op \in {"text", "barcode"}

\* a UPC with a letter, the barcode line first and a text line after it
C4_Witness ==
    /\ r_out.called
    /\ ~AllDigits(RenderUpc)
    /\ r_env.outWritable
    /\ Len(RenderLines) = 2
    /\ RenderLines[1] = UPC_BARCODE
    /\ r_out.ops[1].arg = ERR_BARCODE
    /\ r_out.ops[2].op = "text"
    /\ r_out.ops[2].y = StartY + ErrHeight
    /\ ~r_out.raised

\* the keys of a token map
Keys(values) == {values[i][1] : i \in 1..Len(values)}

\* every {{K}} of the line, K a key of the map, replaced by str(values[K])
\* in one pass over the line; everything else kept
RECURSIVE SubstituteOnce(_, _)
SubstituteOnce(line, values) ==
    IF line = <<>> THEN <<>>
    ELSE IF \E k \in Keys(values) :
                Len(line) >= Len(Token(k))
                /\ SubSeq(line, 1, Len(Token(k))) = Token(k)
    THEN LET k == CHOOSE k \in Keys(values) :
                      Len(line) >= Len(Token(k))
                      /\ SubSeq(line, 1, Len(Token(k))) = Token(k)
         IN Str(Get(values, k))
            \o SubstituteOnce(SubSeq(line, Len(Token(k)) + 1, Len(line)),
                              values)
    ELSE <<Head(line)>> \o SubstituteOnce(Tail(line), values)

\* C5: every line of the template without the {{UPC_BARCODE}} marker is
\* drawn as text, with every {{K}} of the line replaced by the string value
\* of K for the keys K of the token map, and every other placeholder left
\* as it is.
C5_Substitution ==
    r_out.called =>
        \A i \in 1..Len(RenderLines) :
            ~Contains(RenderLines[i], UPC_BARCODE) =>
                /\ i <= Len(r_out.ops)
                /\ r_out.ops[i].op = "text"
                /\ r_out.ops[i].arg = SubstituteOnce(RenderLines[i], r_values)

\* the handler that ran last is a print action that got to its transport
\* stage: its render returned
ReachedTransport ==
    /\ last.action \in {"print_label", "test_print"}
    /\ Len(last.renders) = 1
    /\ ~last.renders[1].out.raised

\* C6 as stated: a print action that reaches the transport stage makes
\* exactly one send, the network one whenever the mode is 'ip' and the
\* serial one whenever the mode is 'serial'.
C6_AsStated ==
    ReachedTransport =>
        /\ Len(last.sends) = 1
        /\ printer_mode = "ip" => last.sends[1].transport = "ip"
        /\ printer_mode = "serial" => last.sends[1].transport = "serial"

\* C6 amended: a print action that reaches the transport stage makes
\* exactly one send: the network one when the mode is 'ip' and a printer IP
\* is set, the serial one in every other case (mode 'serial', or mode 'ip'
\* with the printer IP empty).
C6_OneTransportByModeAndIp ==
    ReachedTransport =>
        /\ Len(last.sends) = 1
        /\ (printer_mode = "ip" /\ printer_ip # <<>>)
               => last.sends[1].transport = "ip"
        /\ (printer_mode = "serial" \/ printer_ip = <<>>)
               => last.sends[1].transport = "serial"

\* mode 'ip' with no printer IP: the label goes out over the serial port
C6_Witness ==
    /\ ReachedTransport
    /\ last.action = "print_label"
    /\ printer_mode = "ip"
    /\ printer_ip = <<>>
    /\ last.sends[1].transport = "serial"

\* C7 as stated: a send never raises; it returns False on any failure and
\* True only when open, write and close all completed.
C7_AsStated ==
    \A i \in 1..Len(last.sends) :
        /\ ~last.sends[i].raised
        /\ last.sends[i].ok = (last.sends[i].outcome = "ok")

\* C7 amended: a send never raises; it returns False when the open (or
\* connect) or the write failed, and True only when both completed; a
\* failed close makes the network send return False, while the serial send
\* swallows it and returns True.
C7_SendNeverRaises ==
    \A i \in 1..Len(last.sends) :
        LET send == last.sends[i] IN
        /\ ~send.raised
        /\ send.outcome \in {"open_fail", "write_fail"} => ~send.ok
        /\ send.outcome = "ok" => send.ok
        /\ send.outcome = "close_fail" => send.ok = (send.transport = "serial")

\* a serial send whose close failed, reported as sent
C7_Witness ==
    /\ Len(last.sends) = 1
    /\ last.sends[1].transport = "serial"
    /\ last.sends[1].outcome = "close_fail"
    /\ last.sends[1].ok
    /\ last.reports = <<"info">>

\* C8: in print_label a send is made only after the render returned, and
\* a render that raised is followed by no send and by an error report.
C8_NoSendAfterFailedRender ==
    last.action = "print_label" =>
        /\ last.sends # <<>>
               => (Len(last.renders) = 1 /\ ~last.renders[1].out.raised)
        /\ (Len(last.renders) = 1 /\ last.renders[1].out.raised)
               => (last.sends = <<>> /\ last.reports = <<"error">>)

C8_Witness ==
    /\ last.action = "print_label"
    /\ Len(last.renders) = 1
    /\ last.renders[1].out.raised
    /\ last.sends = <<>>
    /\ last.reports = <<"error">>

\* no product resolved: nothing selected, or the selected code not stored
NoProduct ==
    \/ selected_product = <<>>
    \/ SplitFirst(selected_product) = <<>>
    \/ SplitFirst(selected_product) \notin DOMAIN store

\* C9: a print-label step taken with no product selected, or with a code
\* that is not in the store, shows one warning or error and changes
\* nothing: weight and price fields, store and settings stay as they were,
\* nothing is rendered and nothing is sent.
C9_MissChangesNothing ==
    [][(last.action = "none" /\ last'.action = "print_label" /\ NoProduct) =>
          /\ UNCHANGED <<store, selected_product, weight_var, price_var,
                         printer_mode, printer_ip, printer_port>>
          /\ last'.raised = ""
          /\ last'.reports = IF selected_product = <<>> THEN <<"warning">>
                             ELSE <<"error">>
          /\ last'.renders = <<>>
          /\ last'.sends = <<>>]_vars

\* a code that is not stored, with a price left in the price field by an
\* earlier print
C9_Witness ==
    /\ last.action = "print_label"
    /\ NoProduct
    /\ selected_product = T2
    /\ last.reports = <<"error">>
    /\ price_var = Num(647)
    /\ weight_var = Num(3250)

\* C10: no I/O error leaves a handler uncaught.
C10_NoUncaughtIOError == last.raised # "OSError"

\* the template the claim names: the content of the product's label_format
\* file when the product has one and the file is there and readable, the
\* built-in default otherwise
ClaimedTemplate ==
    LET prod == store[SplitFirst(selected_product)] IN
    IF Truthy(prod.label_format) /\ label_file = "ok" THEN CustomTemplate
    ELSE DefaultTemplate(prod)

\* C11: a print-label action that found its product (the weight field
\* holding a number or nothing) goes on to one render, and the template of
\* that render is the content of the label_format file exactly when the
\* file exists and is readable, and the built-in default in every other
\* case, a file that is present and unreadable included.
C11_TemplateSelection ==
    (last.action = "print_label" /\ FoundProduct /\ weight_var.k # "bad") =>
        /\ Len(last.renders) = 1
        /\ last.renders[1].template = ClaimedTemplate

\* [-+]?\d+ at position i: the length matched, 0 for no match
SignedIntAt(s, i) ==
    LET j == IF i <= Len(s) /\ s[i] \in {"+", "-"} THEN i + 1 ELSE i
        n == DigitRun(s, j)
    IN IF n >= 1 THEN (j - i) + n ELSE 0

\* the value of the signed integer at position i, in units of 0.0001
SignedIntVal(s, i) ==
    LET j == IF s[i] \in {"+", "-"} THEN i + 1 ELSE i
        mag == IntVal(s, j, DigitRun(s, j)) * Pow10(4)
    IN IF s[i] = "-" THEN 0 - mag ELSE mag

\* the number the claim names: the leftmost signed decimal or signed
\* integer of the text, sign included; <<>> when the text holds no digit
RECURSIVE ClaimedNumber(_, _)
ClaimedNumber(s, i) ==
    IF i > Len(s) THEN <<>>
    ELSE IF DecimalAt(s, i) > 0 THEN <<DecimalVal(s, i)>>
    ELSE IF SignedIntAt(s, i) > 0 THEN <<SignedIntVal(s, i)>>
    ELSE ClaimedNumber(s, i + 1)

\* C12: for every line the scale sends, read_weight returns the value of
\* the leftmost signed decimal or signed integer of the decoded text, sign
\* included ('-5' gives -5, 'ST,+12.50 lb' gives 12.5), and no number
\* together with the text when the text holds no number.
C12_FirstSignedNumber ==
    (sc_out.called /\ sc_in.k = "line") =>
        LET text == Strip(sc_in.raw) IN
        /\ sc_out.wt = ClaimedNumber(text, 1)
        /\ ClaimedNumber(text, 1) = <<>> => sc_out.info = text

\* C19: once read_weight has opened the port, the port is closed when the
\* call returns, whether a line was read, nothing arrived, or the read
\* failed.
C19_ClosedOnEveryPath ==
    (sc_out.called /\ sc_in.k # "open_fail") => sc_out.closed

\* C13: a render that wrote its image drew the lot number, right-aligned
\* near the top-right corner and apart from the line-by-line flow, exactly
\* when the token map has a LOT token.
C13_LotDrawnTopRight ==
    (r_out.called /\ r_out.saved) =>
        ("LOT" \in Keys(r_values)
            <=> \E i \in 1..Len(r_out.ops) :
                    /\ r_out.ops[i].op = "lot"
                    /\ r_out.ops[i].arg = Str(Get(r_values, "LOT")))

\* the line holds a {{...}} placeholder: "{{" with "}}" somewhere after it
HasPlaceholder(line) ==
    \E i \in 1..Len(line), j \in 1..Len(line) :
        /\ i + 1 < j
        /\ j < Len(line)
        /\ line[i] = "{" /\ line[i + 1] = "{"
        /\ line[j] = "}" /\ line[j + 1] = "}"

NoPlaceholder(template_text) ==
    \A i \in 1..Len(Split(template_text)) :
        ~HasPlaceholder(Split(template_text)[i])

\* what a call left in the image file and whether it returned
Image(out) ==
    [raised |-> out.raised, saved |-> out.saved, logo |-> out.logo,
     ops |-> out.ops]

\* C14 as stated: for a template without a placeholder the image is the
\* same whatever the token map, maps that differ in LOGO_PATH or UPC
\* included.
C14_AsStated ==
    (r_out.called /\ NoPlaceholder(r_template)) =>
        \A other \in RenderMaps :
            Image(render_label_as_image(r_template, other, r_env))
                = Image(r_out)

\* C14 amended: for a template without a placeholder the image is the same
\* for any two token maps that give the same LOGO_PATH, whatever else they
\* hold (UPC included).
C14_IndependentButForLogo ==
    (r_out.called /\ NoPlaceholder(r_template)) =>
        \A other \in RenderMaps :
            Get(other, "LOGO_PATH") = Get(r_values, "LOGO_PATH") =>
                Image(render_label_as_image(r_template, other, r_env))
                    = Image(r_out)

\* a two-line template of plain text and a single-brace {UPC}, rendered
\* with a UPC that is no digit string while other maps hold a valid one
C14_Witness ==
    /\ r_out.called
    /\ r_out.saved
    /\ NoPlaceholder(r_template)
    /\ Len(r_out.ops) = 2
    /\ r_out.ops[2].arg = <<"{", "UPC", "}">>
    /\ Get(r_values, "UPC") = <<"1", "2", "A">>
    /\ Get(r_values, "LOGO_PATH") = None
    /\ \E other \in RenderMaps :
          /\ Get(other, "UPC") = DIGITS11
          /\ Get(other, "LOGO_PATH") = None

\* the same token map built in another order: the same keys with the same
\* values, which is all that equality of two dicts looks at
Reorderings(values) ==
    {[i \in 1..Len(values) |-> values[q[i]]] :
        q \in Permutations(1..Len(values))}

\* C15: two calls with the same template, the same token map and the same
\* files make the same draw and paste operations at the same positions;
\* the second call is given the map of the first, built in any order.
C15_Deterministic ==
    r_out.called =>
        \A other \in Reorderings(r_values) :
            Image(render_label_as_image(r_template, other, r_env))
                = Image(r_out)

\* the manual print read its file and its two fields: it got to the
\* substitution
ManualPrintRan ==
    /\ last.action = "manual_print"
    /\ (last.sends # <<>> \/ last.raised = "TypeError")

\* the four values the claim names, from the selected product and the
\* weight and price fields
ClaimedSubs ==
    LET code == SplitFirst(selected_product)
        found == selected_product # <<>> /\ code \in DOMAIN store
    IN <<<<"PRODUCT_CODE", IF found THEN store[code].product_code ELSE <<>>>>,
         <<"DESCRIPTION", IF found THEN store[code].description ELSE <<>>>>,
         <<"WEIGHT", Fmt3(weight_var.v)>>,
         <<"PRICE", Fmt2(price_var.v)>>>>

\* C16: a manual print that got to the substitution renders nothing and
\* makes one send, over the serial transport whatever the mode, of the
\* file's text with the four placeholders {{PRODUCT_CODE}},
\* {{DESCRIPTION}}, {{WEIGHT}} and {{PRICE}} replaced and everything
\* else, other placeholders included, as it is in the file.
C16_ManualPrint ==
    ManualPrintRan =>
        /\ last.renders = <<>>
        /\ Len(last.sends) = 1
        /\ last.sends[1].transport = "serial"
        /\ last.sends[1].data = SubstituteOnce(RawTemplate, ClaimedSubs)

\* C17: every scale read opens the port stored under 'scale_port' in the
\* settings table, and every serial send the port stored under
\* 'printer_port', whatever was written to the table before.
C17_PortsFromSettings ==
    settings.exists =>
        /\ \A i \in 1..Len(last.scale) :
               last.scale[i].port = settings.rows["scale_port"]
        /\ \A i \in 1..Len(last.sends) :
               last.sends[i].transport = "serial"
                   => last.sends[i].addr = settings.rows["printer_port"]

\* C18: when init_db has run, the settings table exists and holds the keys
\* touch_keyboard, scale_port and printer_port.
C18_SettingsSeeded ==
    last.action = "init_db" =>
        /\ settings.exists
        /\ SettingKeys \subseteq DOMAIN settings.rows

\* C20: when a printer send or a connection test has returned, whether it
\* succeeded or failed at open, connect or write, no serial port and no
\* socket it opened is still open.
C20_NoHandleLeftOpen ==
    \A i \in 1..Len(last.sends) :
        last.sends[i].outcome \in {"ok", "open_fail", "write_fail"}
            => ~last.sends[i].open_after

\* C21: a print action (print label, test print) calls the renderer at most
\* once and makes at most one send, and ends with exactly one report to the
\* user, of success or of failure.
C21_NoRetryOneReport ==
    last.action \in {"print_label", "test_print"} =>
        /\ Len(last.renders) <= 1
        /\ Len(last.sends) <= 1
        /\ Len(last.reports) = 1

\* C22: a read-weight step during which the scale sends nothing before the
\* timeout raises nothing: read_weight returns no weight with the text
\* 'No data', an error is shown, and the weight field stays as it was.
C22_NoDataLeavesWeight ==
    [][(/\ last.action = "none"
        /\ last'.action = "read_weight"
        /\ last'.scale[1].outcome = "no_data") =>
          /\ last'.raised = ""
          /\ last'.scale[1].wt = <<>>
          /\ last'.scale[1].info = <<"No data">>
          /\ last'.reports = <<"error">>
          /\ weight_var' = weight_var]_vars

\* a weight read earlier is still in the field after a read that timed out
C22_Witness ==
    /\ last.action = "read_weight"
    /\ last.scale[1].outcome = "no_data"
    /\ last.scale[1].info = <<"No data">>
    /\ weight_var = Num(3250)

\* the print action rendered with the built-in default template: the
\* product has no label_format, or the file it names is not there
RenderedDefault ==
    /\ last.action = "print_label"
    /\ FoundProduct
    /\ Len(last.renders) = 1
    /\ ~(/\ Truthy(store[SplitFirst(selected_product)].label_format)
         /\ label_file # "missing")

\* C23: a label rendered from the built-in default template shows the
\* weight and the total price and has a UPC barcode element, and no
\* placeholder text such as '{WEIGHT}', '{PRICE}' or '{UPC_BARCODE}' is
\* drawn as it stands.
C23_DefaultTemplateShowsValues ==
    RenderedDefault =>
        LET render == last.renders[1]
            ops == render.out.ops
        IN /\ \E i \in 1..Len(ops) :
                 ops[i].op = "barcode" \/ ops[i].arg = ERR_BARCODE
           /\ \E i \in 1..Len(ops) :
                 /\ ops[i].op = "text"
                 /\ Contains(ops[i].arg, Get(render.values, "WEIGHT"))
           /\ \E i \in 1..Len(ops) :
                 /\ ops[i].op = "text"
                 /\ Contains(ops[i].arg, Get(render.values, "PRICE"))
           /\ \A i \in 1..Len(ops) :
                 \A k \in {"WEIGHT", "PRICE", "UPC_BARCODE"} :
                     ~Contains(ops[i].arg, <<"{", k, "}">>)

\* the combobox shows the entry of a stored product
EntrySelected == \E c \in DOMAIN store : Entry(store[c]) = selected_product

\* the product whose entry is shown
EntryOwner == CHOOSE c \in DOMAIN store : Entry(store[c]) = selected_product

\* C24: with the entry of a stored product selected, read weight, print
\* label and manual print work on exactly that product, also when its code
\* or its description holds the separator ' - ': the tare taken off is its
\* tare, the label carries its product code, the raw template is filled
\* with its product code.
C24_EntryResolvesItsProduct ==
    EntrySelected =>
        /\ (last.action = "read_weight" /\ last.scale[1].wt # <<>>) =>
               weight_var
                   = Num(RoundDiv(Max(0, last.scale[1].wt[1]
                                         - store[EntryOwner].tare[1]), 10))
        /\ last.action = "print_label" =>
               /\ Len(last.renders) = 1
               /\ Get(last.renders[1].values, "PRODUCT_CODE") = EntryOwner
        /\ (last.action = "manual_print" /\ last.sends # <<>>) =>
               Contains(last.sends[1].data,
                        <<"L", "\n">> \o EntryOwner \o <<" ">>)

\* C25: what a substituted value brings into a line is drawn as it is: a
\* line is drawn as a barcode (or its 'ERR: barcode' fallback) only when
\* the template line itself holds the {{UPC_BARCODE}} marker, and the text
\* of any other line is the template line with its own placeholders
\* replaced once, a placeholder inside a value staying verbatim.
C25_NoResubstitution ==
    r_out.called =>
        \A i \in 1..Len(r_out.ops) :
            LET line == RenderLines[i]
                drawn == r_out.ops[i]
            IN /\ (drawn.op = "barcode" \/ drawn.x = BarcodeX)
                      => Contains(line, UPC_BARCODE)
               /\ drawn.op = "text" /\ drawn.x = TextX
                      => drawn.arg = SubstituteOnce(line, r_values)

\* the UPC of the render is missing (no UPC token, or None) or empty
UpcMissing == ~Truthy(Get(r_values, "UPC"))

\* C26: no UPC is turned down for its length.  When the UPC of the token
\* map is a digit string of any length, the empty one and the missing one
\* included, and the barcode's image file can be written, every line of
\* the template with the {{UPC_BARCODE}} marker is drawn as a barcode of an
\* 11- or 12-digit code, never as 'ERR: barcode'; for a missing or empty
\* UPC the code is all zeros.
C26_NoLengthRejection ==
    (r_out.called /\ AllDigits(RenderUpc) /\ r_env.tmpWritable) =>
        \A i \in 1..Len(RenderLines) :
            Contains(RenderLines[i], UPC_BARCODE) =>
                /\ r_out.ops[i].op = "barcode"
                /\ r_out.ops[i].arg # ERR_BARCODE
                /\ Len(r_out.ops[i].arg) \in {UpcShort, UpcLong}
                /\ AllDigits(r_out.ops[i].arg)
                /\ UpcMissing => r_out.ops[i].arg = Zeros(UpcShort)

\* a token map without a UPC token, and the barcode of eleven zeros
C26_Witness ==
    /\ r_out.called
    /\ "UPC" \notin Keys(r_values)
    /\ RenderLines[1] = UPC_BARCODE
    /\ r_out.ops[1].op = "barcode"
    /\ r_out.ops[1].arg = Zeros(UpcShort)
    /\ r_out.saved

=============================================================================
